---------------------------- MODULE Spec2Model ----------------------------
(***************************************************************************)
(* Schnorr signatures (Sign, Verify, AggregateSignatures) and the          *)
(* compressed point codec (Marshal, Unmarshal) of pkg/schnorr/schnorr.go.  *)
(*                                                                         *)
(* The curve is y^2 = x^3 + 7 over a prime field, as secp256k1, scaled     *)
(* down so that TLC can enumerate it: the field prime P = 79 (P = 3 mod 4, *)
(* P = 1 mod 3, 7 a non-residue, so no point has x = 0 or y = 0), the      *)
(* group order N = 67 (prime, N < P), and a field element fills            *)
(* ByteLen = 1 byte where secp256k1's fills 32.  A 32-byte array of the    *)
(* code is the integer it encodes big-endian, below Width; a 33-byte       *)
(* compressed key is the sequence <<prefix, x bytes>>; a 64-byte signature *)
(* is the pair <<r, s>> of its two halves.                                 *)
(*                                                                         *)
(* sha256.Sum256 is modelled by a fixed mixing function with a ByteLen     *)
(* digest.  At this scale the digests that are negligible for SHA-256      *)
(* (digest = 0 mod N) occur among the enumerated inputs.                   *)
(***************************************************************************)
EXTENDS Integers, Sequences, FiniteSets, TLC

\* ----------------------------------------------------------------- bounds
\* messages are 0..MaxMsg
MaxMsg == 3
\* keys of a multi-key sequence: 0, 1..MaxKey, N-MaxKey..N
MaxKey == 3
\* a key sequence holds at most MaxKeys keys
MaxKeys == 2
\* public keys handed to Verify directly: compress(d*G), d in 1..MaxPub
MaxPub == 2
\* byte sequences handed to Unmarshal directly hold at most MaxRawLen bytes
MaxRawLen == 3

\* ------------------------------------------------------- curve parameters
\* Curve.P
P == 79
\* Curve.N
N == 67
\* Curve.Gx, Curve.Gy
Gx == 1
Gy == 18
\* Curve.Params().BitSize
BitSize == 7
\* a nil *big.Int / nil slice (no integer these functions handle is -1)
Nil == -1

ByteLen == (BitSize + 7) \div 8

RECURSIVE Pow(_, _)
Pow(b, n) == IF n = 0 THEN 1 ELSE b * Pow(b, n - 1)

\* number of values of a ByteLen-byte array
Width == Pow(256, ByteLen)

Abs(i) == IF i < 0 THEN 0 - i ELSE i

\* ------------------------------------------------------------ math/big
square(h, m) == (h * h) % m

RECURSIVE ModExp(_, _, _)
\* big.Int.Exp(b, e, m)
ModExp(b, e, m) ==
    IF e = 0 THEN 1 % m
    ELSE IF e % 2 = 1 THEN (square(ModExp(b, e \div 2, m), m) * (b % m)) % m
    ELSE square(ModExp(b, e \div 2, m), m)

symbolOf(t) == IF t = 0 THEN 0 ELSE IF t = 1 THEN 1 ELSE 0 - 1

\* big.Jacobi(a, p) for an odd prime p: the Legendre symbol
Jacobi(a, p) == symbolOf(ModExp(a % p, (p - 1) \div 2, p))

\* inverse in the field
FieldInv(a) == ModExp(a % P, P - 2, P)

\* ------------------------------------------------------------- bytes
RECURSIVE IntToBytes(_, _)
\* big-endian, exactly n bytes
IntToBytes(v, n) ==
    IF n = 0 THEN <<>> ELSE Append(IntToBytes(v \div 256, n - 1), v % 256)

RECURSIVE BytesToInt(_)
\* big.Int.SetBytes
BytesToInt(bs) ==
    IF bs = <<>> THEN 0
    ELSE 256 * BytesToInt(SubSeq(bs, 1, Len(bs) - 1)) + bs[Len(bs)]

\* GetBigIntBytesImmutable: the magnitude of i padded to the array width, as the
\* integer the array encodes; nil when it does not fit
GetBigIntBytesImmutable(i) == IF Abs(i) >= Width THEN Nil ELSE Abs(i)

\* the bytes of a ByteLen-byte array
ToBytes(v) == IntToBytes(v, ByteLen)

\* ------------------------------------------------------------- sha256
Compress(h, b) == ((h + b + 1) * (h + b + 1) * 3 + 5 * h + b) % 257

RECURSIVE Absorb(_, _)
Absorb(h, bs) == IF bs = <<>> THEN h ELSE Absorb(Compress(h, Head(bs)), Tail(bs))

\* sha256.Sum256, as the integer of its digest
Sum256(bs) == Absorb(0, bs) % Width

\* -------------------------------------------------- btcec.S256() (Curve)
\* the point at infinity as the library returns and recognises it
Infinity == <<0, 0>>

\* Curve.IsOnCurve: the equation in the field (coordinates are reduced)
IsOnCurve(x, y) == (y * y) % P = (x * x * x + 7) % P

\* the third point of the line of slope l through (a1, b1) and (a2, .)
chord(a1, b1, a2, l) ==
    LET x3 == (l * l - a1 - a2) % P
    IN <<x3, (l * (a1 - x3) - b1) % P>>

\* the sum of two pairs taken as finite points, coordinates reduced
addFinite(a1, b1, a2, b2) ==
    IF a1 = a2 /\ b1 # b2 THEN Infinity
    ELSE IF a1 = a2 /\ b1 = 0 THEN Infinity
    ELSE IF a1 = a2
         THEN chord(a1, b1, a2, (3 * a1 * a1 * FieldInv(2 * b1)) % P)
         ELSE chord(a1, b1, a2, ((b2 - b1) * FieldInv(a2 - a1)) % P)

\* Curve.Add: (0, 0) is the identity, tested on the integers as given; any
\* other pair is taken as a finite point with its coordinates reduced mod P
CurveAdd(x1, y1, x2, y2) ==
    IF x1 = 0 /\ y1 = 0 THEN <<x2, y2>>
    ELSE IF x2 = 0 /\ y2 = 0 THEN <<x1, y1>>
    ELSE addFinite(x1 % P, y1 % P, x2 % P, y2 % P)

addPoints(p, q) == CurveAdd(p[1], p[2], q[1], q[2])

double(h) == addPoints(h, h)

RECURSIVE Multiply(_, _)
\* k times the point pt, by double and add
Multiply(pt, k) ==
    IF k = 0 THEN Infinity
    ELSE IF k % 2 = 1 THEN addPoints(double(Multiply(pt, k \div 2)), pt)
    ELSE double(Multiply(pt, k \div 2))

\* Curve.ScalarMult: the scalar is reduced mod N
ScalarMult(x, y, k) == Multiply(<<x % P, y % P>>, k % N)

\* the multiples 0*G .. (N-1)*G of the generator
GTable == [k \in 0..(N - 1) |-> Multiply(<<Gx, Gy>>, k)]

\* Curve.ScalarBaseMult
ScalarBaseMult(k) == GTable[k % N]

\* elliptic.MarshalCompressed
MarshalCompressed(x, y) == <<2 + (y % 2)>> \o IntToBytes(x, ByteLen)

\* ============================================================ schnorr.go
ErrNone == "nil"
ErrKeyRange == "private key must be an integer between 1 and N"
ErrAggKeyRange == "private key is not in the range 1..n-1"
ErrNoKeys == "no private keys supplied"
ErrZeroK == "k0 is zero"
ErrUnmarshalNil == "px or py was unmarshalled to nil"
ErrNotOnCurve == "px and py are not on the curve"
ErrRRange == "r is larger or equal to the field size"
ErrSRange == "s is larger than or equal to curve order N"
ErrZeroPoint == "sign with r[x|y] is 0 indicating the result is 0"
ErrJacobi == "failed to validate the jacobi symbol"
ErrRMismatch == "r and rx do not match"
PanicIndex == "panic: index out of range"

ZeroSignature == <<0, 0>>

\* Marshal
Marshal(x, y) == <<2 + (y % 2)>> \o IntToBytes(x, ByteLen)

\* Unmarshal returning the named results (x, y), nil unless assigned
unmarshalNil == [x |-> Nil, y |-> Nil, panic |-> ErrNone]

\* unmarshalRoot without the parity flip
unmarshalRootNoFlip(prefix, x0, ySq, y0) ==
    IF ModExp(y0, 2, P) # ySq THEN unmarshalNil
    ELSE [x |-> x0, y |-> y0, panic |-> ErrNone]

\* Unmarshal, lines 264-271: the root is checked, then flipped to the
\* parity the prefix asks for
unmarshalRoot(prefix, x0, ySq, y0) ==
    IF ModExp(y0, 2, P) # ySq THEN unmarshalNil
    ELSE IF y0 % 2 # prefix % 2
         THEN [x |-> x0, y |-> P - y0, panic |-> ErrNone]
         ELSE [x |-> x0, y |-> y0, panic |-> ErrNone]

\* Unmarshal, lines 252-262: y0 = ySq^((P+1)/4)
unmarshalSquare(prefix, x0, ySq) ==
    unmarshalRoot(prefix, x0, ySq,
                  ModExp(ySq, ((P + 1) - ((P + 1) % 4)) \div 4, P))

\* Unmarshal, lines 251-256: ySq = x0^3 + 7
unmarshalX(prefix, x0) == unmarshalSquare(prefix, x0, (ModExp(x0, 3, P) + 7) % P)

\* Unmarshal: data[0] is read before the length is tested
Unmarshal(data) ==
    IF Len(data) = 0 THEN [x |-> Nil, y |-> Nil, panic |-> PanicIndex]
    ELSE IF data[1] \notin {2, 3} THEN unmarshalNil
    ELSE IF Len(data) # 1 + ByteLen THEN unmarshalNil
    ELSE unmarshalX(data[1], BytesToInt(SubSeq(data, 2, 1 + ByteLen)))

nonceOf(k0) ==
    IF k0 = 0 THEN [k0 |-> Nil, err |-> ErrZeroK] ELSE [k0 |-> k0, err |-> ErrNone]

\* getDeterministicK
getDeterministicK(d, message) ==
    nonceOf(Sum256(ToBytes(d) \o ToBytes(message)) % N)

\* getK (k is negated in place: no caller reads the old value afterwards)
getK(Ry, k) == IF Jacobi(Ry, P) = 1 THEN k ELSE N - k

\* getE
getE(Px, Py, rX, m) ==
    Sum256(ToBytes(rX) \o MarshalCompressed(Px, Py) \o ToBytes(m)) % N

\* Sign, lines 57-74: the challenge, s = k + e*d mod N, and the packing
signChallenge(privatekey, message, k, rxBytes, Pt) ==
    [signature |->
        <<rxBytes,
          GetBigIntBytesImmutable(
             (k + getE(Pt[1], Pt[2], rxBytes, message) * privatekey) % N)>>,
     err |-> ErrNone]

\* Sign, lines 48-58: k from R's Y, the public point
signPoint(privatekey, message, k0, R) ==
    signChallenge(privatekey, message, getK(R[2], k0),
                  GetBigIntBytesImmutable(R[1]),
                  ScalarBaseMult(GetBigIntBytesImmutable(privatekey)))

\* Sign, lines 43-49
signNonce(privatekey, message, kr) ==
    IF kr.err # ErrNone THEN [signature |-> ZeroSignature, err |-> kr.err]
    ELSE signPoint(privatekey, message, kr.k0,
                   ScalarBaseMult(GetBigIntBytesImmutable(kr.k0)))

\* Sign deriving the nonce before it checks the range of the key
SignNonceFirst(privatekey, message) ==
    IF getDeterministicK(GetBigIntBytesImmutable(privatekey), message).err # ErrNone
    THEN [signature |-> ZeroSignature, err |-> ErrZeroK]
    ELSE IF privatekey < 1 \/ privatekey > N - 1
    THEN [signature |-> ZeroSignature, err |-> ErrKeyRange]
    ELSE signNonce(privatekey, message,
                   getDeterministicK(GetBigIntBytesImmutable(privatekey), message))

\* Sign
Sign(privatekey, message) ==
    IF privatekey < 1 \/ privatekey > N - 1
    THEN [signature |-> ZeroSignature, err |-> ErrKeyRange]
    ELSE signNonce(privatekey, message,
                   getDeterministicK(GetBigIntBytesImmutable(privatekey), message))

\* Verify, lines 109-112: the Y of e*(px, py) is negated as P - epy, and the
\* two points are added
verifySum(sg, ep) == CurveAdd(sg[1], sg[2], ep[1], P - ep[2])

\* Verify, lines 103-112: s*G and e*(px, py)
verifyPoint(px, py, s, e) ==
    verifySum(ScalarBaseMult(GetBigIntBytesImmutable(s)),
              ScalarMult(px, py, GetBigIntBytesImmutable(e)))

\* what Verify returns before e and the point are computed
verifyEarly(err) == [ok |-> FALSE, err |-> err, e |-> Nil, R |-> <<Nil, Nil>>]

verifyErr(r, R) ==
    IF R[1] = 0 /\ R[2] = 0 THEN ErrZeroPoint
    ELSE IF Jacobi(R[2], P) # 1 THEN ErrJacobi
    ELSE IF R[1] # r THEN ErrRMismatch
    ELSE ErrNone

\* Verify, lines 114-124; e and R are the locals e and (rx, ry) of the call
verifyChecks(r, e, R, err) == [ok |-> (err = ErrNone), err |-> err, e |-> e, R |-> R]

verifyFrom(r, e, R) == verifyChecks(r, e, R, verifyErr(r, R))

\* Verify, lines 100-112
verifyChallenge(pt, r, s, e) == verifyFrom(r, e, verifyPoint(pt.x, pt.y, s, e))

\* Verify, lines 80-101
verifyKey(pt, message, r, s) ==
    IF pt.x = Nil \/ pt.y = Nil THEN verifyEarly(ErrUnmarshalNil)
    ELSE IF ~IsOnCurve(pt.x, pt.y) THEN verifyEarly(ErrNotOnCurve)
    ELSE IF r >= P THEN verifyEarly(ErrRRange)
    ELSE IF s >= N THEN verifyEarly(ErrSRange)
    ELSE verifyChallenge(pt, r, s,
            getE(pt.x, pt.y, GetBigIntBytesImmutable(r), message))

\* Verify
Verify(publickey, message, signature) ==
    verifyKey(Unmarshal(publickey), message, signature[1], signature[2])

\* aggregateAdd keeping the last key's nonce point instead of the sum
aggregateAddOverwrite(acc, k0, Ri, Pi) ==
    [err |-> ErrNone,
     k0s |-> Append(acc.k0s, k0),
     R |-> Ri,
     Pt |-> addPoints(acc.Pt, Pi)]

\* AggregateSignatures, lines 154-161: one key's points added to the sums
aggregateAdd(acc, k0, Ri, Pi) ==
    [err |-> ErrNone,
     k0s |-> Append(acc.k0s, k0),
     R |-> addPoints(acc.R, Ri),
     Pt |-> addPoints(acc.Pt, Pi)]

\* AggregateSignatures, lines 149-161
aggregateNonce(acc, d, kr) ==
    IF kr.err # ErrNone THEN [acc EXCEPT !.err = kr.err]
    ELSE aggregateAdd(acc, kr.k0,
                      ScalarBaseMult(GetBigIntBytesImmutable(kr.k0)),
                      ScalarBaseMult(d))

\* aggregateKey checking only the lower end of the key range
aggregateKeyNoUpper(acc, privatekey, message) ==
    IF acc.err # ErrNone THEN acc
    ELSE IF privatekey < 1
    THEN [acc EXCEPT !.err = ErrAggKeyRange]
    ELSE aggregateNonce(acc, GetBigIntBytesImmutable(privatekey),
            getDeterministicK(GetBigIntBytesImmutable(privatekey), message))

\* AggregateSignatures, lines 138-161: the body of the first loop
aggregateKey(acc, privatekey, message) ==
    IF acc.err # ErrNone THEN acc
    ELSE IF privatekey < 1 \/ privatekey > N - 1
    THEN [acc EXCEPT !.err = ErrAggKeyRange]
    ELSE aggregateNonce(acc, GetBigIntBytesImmutable(privatekey),
            getDeterministicK(GetBigIntBytesImmutable(privatekey), message))

RECURSIVE aggregatePoints(_, _, _)
\* AggregateSignatures, lines 133-162: the first loop over keys 1..i; it
\* stops at the first error
aggregatePoints(privatekeys, message, i) ==
    IF i = 0
    THEN [err |-> ErrNone, k0s |-> <<>>, R |-> <<0, 0>>, Pt |-> <<0, 0>>]
    ELSE aggregateKey(aggregatePoints(privatekeys, message, i - 1),
                      privatekeys[i], message)

RECURSIVE aggregateSNoParity(_, _, _, _, _)
\* aggregateS without the parity correction of the nonces
aggregateSNoParity(k0s, privatekeys, ry, e, i) ==
    IF i > Len(k0s) THEN 0
    ELSE k0s[i] + e * privatekeys[i]
         + aggregateSNoParity(k0s, privatekeys, ry, e, i + 1)

RECURSIVE aggregateS(_, _, _, _, _)
\* AggregateSignatures, lines 171-178: the sum over indexes i.. of
\* getK(ry, k0) + e * privatekeys[i]
aggregateS(k0s, privatekeys, ry, e, i) ==
    IF i > Len(k0s) THEN 0
    ELSE getK(ry, k0s[i]) + e * privatekeys[i]
         + aggregateS(k0s, privatekeys, ry, e, i + 1)

\* AggregateSignatures, lines 167-184
aggregateChallenge(privatekeys, acc, newRx, e) ==
    [signature |->
        <<newRx,
          GetBigIntBytesImmutable(
             aggregateS(acc.k0s, privatekeys, acc.R[2], e, 1) % N)>>,
     err |-> ErrNone]

\* AggregateSignatures, lines 163-168
aggregateSums(privatekeys, message, acc) ==
    IF acc.err # ErrNone THEN [signature |-> ZeroSignature, err |-> acc.err]
    ELSE aggregateChallenge(privatekeys, acc, GetBigIntBytesImmutable(acc.R[1]),
            getE(acc.Pt[1], acc.Pt[2], GetBigIntBytesImmutable(acc.R[1]), message))

\* AggregateSignatures
AggregateSignatures(privatekeys, message) ==
    IF Len(privatekeys) = 0
    THEN [signature |-> ZeroSignature, err |-> ErrNoKeys]
    ELSE aggregateSums(privatekeys, message,
            aggregatePoints(privatekeys, message, Len(privatekeys)))

\* ================================================================ state
VARIABLES
    privatekeys,   \* the private keys handed to Sign / AggregateSignatures
    message,       \* the message handed to every call
    signed,        \* the Sign(privatekeys[0], message) call and its result
    aggregated,    \* the AggregateSignatures(privatekeys, message) call
    permuted,      \* an AggregateSignatures call on a permutation of the keys
    verified,      \* the Verify call on the signature of signed / aggregated
    tried,         \* a Verify call on a caller-chosen signature
    replaced,      \* the Verify call repeating tried with another s
    encoded,       \* a Marshal call
    decoded        \* an Unmarshal call

vars == <<privatekeys, message, signed, aggregated, permuted, verified,
          tried, replaced, encoded, decoded>>

NoCall == [op |-> "none"]

Messages == 0..MaxMsg

\* one key of any kind: negative, 0, every valid key, N, above N
SingleKeys == (0 - 1)..(N + 1)

\* the keys of longer sequences: 0, small keys, their negatives mod N, and N
MultiKeys == {0} \cup (1..MaxKey) \cup ((N - MaxKey)..N)

RECURSIVE SeqsOfLen(_, _)
SeqsOfLen(S, n) ==
    IF n = 0 THEN {<<>>}
    ELSE {Append(q, d) : q \in SeqsOfLen(S, n - 1), d \in S}

KeySeqs ==
    {<<>>} \cup {<<d>> : d \in SingleKeys}
           \cup UNION {SeqsOfLen(MultiKeys, n) : n \in 2..MaxKeys}

RECURSIVE sumPublic(_, _)
\* d1*G + ... + dn*G for the first i keys
sumPublic(keys, i) ==
    IF i = 0 THEN Infinity
    ELSE addPoints(sumPublic(keys, i - 1), ScalarBaseMult(keys[i]))

compress(Pt) == Marshal(Pt[1], Pt[2])

\* the compressed (aggregate) public key of a key sequence
publicKeyOf(keys) == compress(sumPublic(keys, Len(keys)))

signCall(res) == [op |-> "Sign", signature |-> res.signature, err |-> res.err]

aggregateCall(keys, res) ==
    [op |-> "AggregateSignatures", keys |-> keys,
     signature |-> res.signature, err |-> res.err]

permute(keys, f) == [i \in 1..Len(keys) |-> keys[f[i]]]

idle == /\ tried = NoCall /\ replaced = NoCall
        /\ encoded = NoCall /\ decoded = NoCall

\* ------------------------------------------------ signing and aggregation
Init ==
    /\ privatekeys \in KeySeqs
    /\ message \in Messages
    /\ signed = NoCall
    /\ aggregated = NoCall
    /\ permuted = NoCall
    /\ verified = NoCall
    /\ idle

SignCall ==
    /\ Len(privatekeys) = 1
    /\ signed = NoCall
    /\ signed' = signCall(Sign(privatekeys[1], message))
    /\ UNCHANGED <<privatekeys, message, aggregated, permuted, verified,
                   tried, replaced, encoded, decoded>>

AggregateCall ==
    /\ aggregated = NoCall
    /\ aggregated' = aggregateCall(privatekeys,
                          AggregateSignatures(privatekeys, message))
    /\ UNCHANGED <<privatekeys, message, signed, permuted, verified,
                   tried, replaced, encoded, decoded>>

PermutedCall ==
    /\ Len(privatekeys) >= 2
    /\ permuted = NoCall
    /\ \E f \in Permutations(1..Len(privatekeys)) :
          /\ permute(privatekeys, f) # privatekeys
          /\ permuted' = aggregateCall(permute(privatekeys, f),
                AggregateSignatures(permute(privatekeys, f), message))
    /\ UNCHANGED <<privatekeys, message, signed, aggregated, verified,
                   tried, replaced, encoded, decoded>>

verifyRecord(of, publickey, msg, signature, res) ==
    [op |-> "Verify", of |-> of, publickey |-> publickey, message |-> msg,
     signature |-> signature, ok |-> res.ok, err |-> res.err,
     e |-> res.e, R |-> res.R]

verifyCall(of, publickey, msg, signature) ==
    verifyRecord(of, publickey, msg, signature, Verify(publickey, msg, signature))

VerifySigned ==
    /\ signed # NoCall
    /\ signed.err = ErrNone
    /\ verified = NoCall
    /\ verified' = verifyCall("Sign", publicKeyOf(privatekeys), message,
                              signed.signature)
    /\ UNCHANGED <<privatekeys, message, signed, aggregated, permuted,
                   tried, replaced, encoded, decoded>>

VerifyAggregated ==
    /\ aggregated # NoCall
    /\ aggregated.err = ErrNone
    /\ verified = NoCall
    /\ verified' = verifyCall("AggregateSignatures", publicKeyOf(privatekeys),
                              message, aggregated.signature)
    /\ UNCHANGED <<privatekeys, message, signed, aggregated, permuted,
                   tried, replaced, encoded, decoded>>

Next == SignCall \/ AggregateCall \/ PermutedCall \/ VerifySigned
           \/ VerifyAggregated

Spec == Init /\ [][Next]_vars

\* ------------------------------------------- Verify on chosen signatures
InitVerify ==
    /\ privatekeys \in {<<d>> : d \in 1..MaxPub}
    /\ message \in Messages
    /\ signed = NoCall
    /\ aggregated = NoCall
    /\ permuted = NoCall
    /\ verified = NoCall
    /\ idle

\* Verify on the key's public key, the message, and any r in 0..P with any
\* ByteLen-byte s
TryVerify ==
    /\ tried = NoCall
    /\ \E r \in 0..P, s \in 0..(Width - 1) :
          tried' = verifyCall("caller", publicKeyOf(privatekeys), message, <<r, s>>)
    /\ UNCHANGED <<privatekeys, message, signed, aggregated, permuted, verified,
                   replaced, encoded, decoded>>

\* Verify again on an accepted signature with s replaced by another value
ReplaceS ==
    /\ tried # NoCall
    /\ tried.ok
    /\ replaced = NoCall
    /\ \E s \in (0..(Width - 1)) \ {tried.signature[2]} :
          replaced' = verifyCall("replaced", tried.publickey, tried.message,
                                 <<tried.signature[1], s>>)
    /\ UNCHANGED <<privatekeys, message, signed, aggregated, permuted, verified,
                   tried, encoded, decoded>>

NextVerify == TryVerify \/ ReplaceS

VerifySpec == InitVerify /\ [][NextVerify]_vars

\* ------------------------------------------------------- the point codec
RawBytes == {0, 1, 2, 3, 4, 255}

RawData == UNION {SeqsOfLen(RawBytes, n) : n \in 0..MaxRawLen}

InitCodec ==
    /\ privatekeys = <<>>
    /\ message = 0
    /\ signed = NoCall
    /\ aggregated = NoCall
    /\ permuted = NoCall
    /\ verified = NoCall
    /\ idle

unmarshalCall(data, res) ==
    [op |-> "Unmarshal", data |-> data, x |-> res.x, y |-> res.y,
     panic |-> res.panic]

\* Marshal on a point of the curve
MarshalCall ==
    /\ encoded = NoCall
    /\ decoded = NoCall
    /\ \E x \in 0..(P - 1), y \in 0..(P - 1) :
          /\ IsOnCurve(x, y)
          /\ encoded' = [op |-> "Marshal", x |-> x, y |-> y, data |-> Marshal(x, y)]
    /\ UNCHANGED <<privatekeys, message, signed, aggregated, permuted, verified,
                   tried, replaced, decoded>>

\* Unmarshal on what Marshal returned
UnmarshalEncoded ==
    /\ encoded # NoCall
    /\ decoded = NoCall
    /\ decoded' = unmarshalCall(encoded.data, Unmarshal(encoded.data))
    /\ UNCHANGED <<privatekeys, message, signed, aggregated, permuted, verified,
                   tried, replaced, encoded>>

\* Unmarshal on a byte sequence of the caller's
UnmarshalRaw ==
    /\ encoded = NoCall
    /\ decoded = NoCall
    /\ \E data \in RawData : decoded' = unmarshalCall(data, Unmarshal(data))
    /\ UNCHANGED <<privatekeys, message, signed, aggregated, permuted, verified,
                   tried, replaced, encoded>>

NextCodec == MarshalCall \/ UnmarshalEncoded \/ UnmarshalRaw

CodecSpec == InitCodec /\ [][NextCodec]_vars

\* =============================================================== claims
validKey(d) == d >= 1 /\ d <= N - 1

allValid(keys) == \A i \in 1..Len(keys) : validKey(keys[i])

\* C1: whenever Sign(d, m) returned no error, Verify on compress(d*G), m and
\* the signature Sign returned answers true with no error.
C1_SignThenVerify ==
    (verified # NoCall /\ verified.of = "Sign")
        => (verified.ok /\ verified.err = ErrNone)

\* C2: for two valid keys d1, d2 (d1 = d2 and d1 + d2 = N included)
\* AggregateSignatures returns a signature without error or crash, and Verify
\* on the compressed aggregate public key d1*G + d2*G answers true for it.
C2_AggregateThenVerify ==
    (Len(privatekeys) = 2 /\ allValid(privatekeys))
        => /\ aggregated # NoCall => aggregated.err = ErrNone
           /\ (verified # NoCall /\ verified.of = "AggregateSignatures")
                 => verified.ok

\* C3: Sign returns the key-range error and the all-zero signature for every
\* key outside 1..N-1 (also where the nonce of that key would be zero: the
\* range is checked first), and never that error for a key inside 1..N-1.
C3_SignKeyRange ==
    signed # NoCall
        => IF validKey(privatekeys[1])
           THEN signed.err # ErrKeyRange
           ELSE signed.err = ErrKeyRange /\ signed.signature = ZeroSignature

W_C3 ==
    /\ signed # NoCall
    /\ privatekeys[1] = N
    /\ getDeterministicK(GetBigIntBytesImmutable(N), message).err = ErrZeroK
    /\ signed.err = ErrKeyRange

rejectedAggregate(call) == call.err # ErrNone /\ call.signature = ZeroSignature

\* C4: AggregateSignatures returns an error and the all-zero signature for the
\* empty key sequence and for every sequence holding a key outside 1..N-1, at
\* whatever position.
C4_AggregateRejects ==
    /\ (aggregated # NoCall /\ ~(Len(privatekeys) > 0 /\ allValid(privatekeys)))
          => rejectedAggregate(aggregated)
    /\ (permuted # NoCall /\ ~allValid(permuted.keys))
          => rejectedAggregate(permuted)

W_C4 ==
    /\ aggregated # NoCall
    /\ Len(privatekeys) = 2
    /\ validKey(privatekeys[1])
    /\ privatekeys[2] = N
    /\ aggregated.err = ErrAggKeyRange
    /\ aggregated.signature = ZeroSignature

\* C5: Unmarshal(Marshal(x, y)) returns exactly (x, y) for every point of the
\* curve, for even and for odd y.
C5_RoundTrip ==
    (encoded # NoCall /\ decoded # NoCall)
        => /\ decoded.panic = ErrNone
           /\ decoded.x = encoded.x
           /\ decoded.y = encoded.y

\* a round trip in which the square root computed is the other root
W_C5 ==
    /\ encoded # NoCall
    /\ decoded # NoCall
    /\ decoded.y = encoded.y
    /\ ModExp((ModExp(encoded.x, 3, P) + 7) % P, (P + 1) \div 4, P) # encoded.y

\* C6: Unmarshal returns nil x and nil y, without crashing, for every byte
\* sequence whose length is not 1 + ByteLen (the empty one included) and for
\* every sequence whose first byte is neither 02 nor 03.
C6_DecodeFailureReturned ==
    (decoded # NoCall
       /\ (Len(decoded.data) # 1 + ByteLen
             \/ (Len(decoded.data) > 0 /\ decoded.data[1] \notin {2, 3})))
        => /\ decoded.panic = ErrNone
           /\ decoded.x = Nil
           /\ decoded.y = Nil

\* C7: once Verify accepted r||s for a public key and a message, it rejects
\* r||s' for every other s'.
C7_OneSPerR ==
    (tried # NoCall /\ tried.ok /\ replaced # NoCall) => ~replaced.ok

\* C8: the point Verify computes from s and e is the group element
\* s*G - e*Q, for every s and e in 0..N-1 (Q = d*G, so the element is
\* ((s - e*d) mod N)*G).
C8_VerifyPointIsDifference ==
    (tried # NoCall /\ tried.e # Nil)
        => tried.R = GTable[(tried.signature[2] - tried.e * privatekeys[1]) % N]

\* C9: AggregateSignatures([d], m) returns what Sign(d, m) returns: an error in
\* exactly the same cases, and otherwise the same signature.
C9_SingleKeyAggregate ==
    (Len(privatekeys) = 1 /\ signed # NoCall /\ aggregated # NoCall)
        => /\ (signed.err = ErrNone) <=> (aggregated.err = ErrNone)
           /\ signed.signature = aggregated.signature

\* a valid key whose nonce is negated (R's Y is not a square)
W_C9 ==
    /\ Len(privatekeys) = 1
    /\ signed # NoCall
    /\ aggregated # NoCall
    /\ signed.err = ErrNone
    /\ aggregated.signature = signed.signature
    /\ Jacobi(ScalarBaseMult(
          getDeterministicK(privatekeys[1], message).k0)[2], P) # 1

\* C10: AggregateSignatures returns the same signature for every permutation
\* of a sequence of valid keys.
C10_OrderIndependent ==
    (aggregated # NoCall /\ permuted # NoCall /\ allValid(privatekeys))
        => /\ permuted.err = aggregated.err
           /\ permuted.signature = aggregated.signature

\* two different valid keys, a signature returned, the nonces negated
W_C10 ==
    /\ aggregated # NoCall
    /\ permuted # NoCall
    /\ allValid(privatekeys)
    /\ permuted.keys # privatekeys
    /\ aggregated.err = ErrNone
    /\ permuted.signature = aggregated.signature
    /\ Jacobi(aggregatePoints(privatekeys, message, Len(privatekeys)).R[2], P) # 1
=============================================================================
